---- MODULE Spec2Model ----
(***************************************************************************)
(* Model of src/Yobit.js: the Yobit client class.  One client instance is  *)
(* built by the constructor; private calls go through a wrapper and        *)
(* _request, which suspends once at the awaited nonceUpdateFn; public      *)
(* accessors are static and hand a request to the transport directly.      *)
(***************************************************************************)
EXTENDS Integers, Sequences, FiniteSets, TLC

(* ---------------------------- bounds ----------------------------------- *)
\* private calls started on the instance, possibly overlapping (Spec)
MaxCalls == 2
\* private calls started on the instance when every wrapper and argument
\* shape is tried (SpecForms)
MaxForms == 1
\* largest step a caller-supplied nonceUpdateFn adds to its argument
MaxStep == 2
\* Math.floor(+new Date()/1000) at construction time
Now == 1500

(* ---------------------------- JS values -------------------------------- *)
\* A JS string is a sequence of pieces: single characters where a conversion
\* (toLowerCase, join, percent-escaping) works on them, or whole words of
\* lower-case letters, digits and "_" that every conversion leaves as they are.
Undefined == [t |-> "undefined"]
Num(n) == [t |-> "number", n |-> n]
Str(chars) == [t |-> "string", s |-> chars]
Fn(name) == [t |-> "function", f |-> name]
Arr(items) == [t |-> "array", a |-> items]

\* JS truthiness, as used by `a || b` and `!a`
Truthy(v) ==
    CASE v.t = "undefined" -> FALSE
      [] v.t = "number" -> v.n # 0
      [] v.t = "string" -> v.s # <<>>
      [] OTHER -> TRUE

\* a || b
Or(a, b) == IF Truthy(a) THEN a ELSE b

RECURSIVE Concat(_)
\* the TLA+ string spelled by a sequence of strings
Concat(parts) ==
    IF parts = <<>> THEN "" ELSE Head(parts) \o Concat(Tail(parts))

(* ---------------------------- constants -------------------------------- *)
apiHost == "https://yobit.net"
publicApiSufix == "api/3"
privateApiSufix == "tapi"
publicApiUrl == apiHost \o "/" \o publicApiSufix
privateApiUrl == apiHost \o "/" \o privateApiSufix

(* ---------------------------- constructor ------------------------------ *)
\* the default policy (nonce) => nonce + 1
DefaultFn == Fn("increment")
\* a caller-supplied policy: asynchronous, backed by an external store
StoreFn == Fn("store")

\* `const {nonce, nonceUpdateFn, proxyUrl} = options` reads three properties;
\* a property the caller left out reads as undefined.
Opt(n, f, p) == [nonce |-> n, nonceUpdateFn |-> f, proxyUrl |-> p]

\* What the constructor leaves behind: the instance's fields, or a TypeError
\* when `options` itself is undefined (destructuring undefined throws).
constructor(k, s, options, clock) ==
    IF options = Undefined
    THEN [thrown |-> "TypeError", key |-> Undefined, secret |-> Undefined,
          proxyUrl |-> Undefined, nonce |-> Undefined, nonceUpdateFn |-> Undefined]
    ELSE [thrown |-> "none", key |-> k, secret |-> s,
          proxyUrl |-> options.proxyUrl,
          nonce |-> Or(options.nonce, Num(clock)),
          nonceUpdateFn |-> Or(options.nonceUpdateFn, DefaultFn)]

\* the option objects a caller passes to the constructor
OptionsSet ==
    { Undefined }
    \cup { Opt(n, Undefined, Undefined) : n \in {Undefined, Num(0), Num(1000)} }
    \cup { Opt(Undefined, Undefined, Str(<<"proxy">>)),
           Opt(Num(1000), StoreFn, Str(<<"proxy">>)) }

(* ---------------------------- strings ---------------------------------- *)
\* String.prototype.toLowerCase on one character
LowerChar(c) ==
    CASE c = "A" -> "a" [] c = "B" -> "b" [] c = "C" -> "c" [] c = "D" -> "d"
      [] c = "L" -> "l" [] c = "R" -> "r" [] c = "S" -> "s" [] c = "T" -> "t"
      [] c = "U" -> "u" [] c = "Y" -> "y"
      [] OTHER -> c

toLowerCase(chars) == [i \in 1..Len(chars) |-> LowerChar(chars[i])]

RECURSIVE join(_, _)
\* Array.prototype.join(sep) over an array of strings
join(items, sep) ==
    IF items = <<>> THEN <<>>
    ELSE IF Len(items) = 1 THEN Head(items).s
    ELSE Head(items).s \o sep \o join(Tail(items), sep)

_formatPairs(pairs) ==
    IF pairs.t = "array" THEN Str(toLowerCase(join(pairs.a, <<"-">>)))
    ELSE Str(toLowerCase(pairs.s))

_publicUrl(method) == publicApiUrl \o "/" \o method

\* CryptoJS.HmacSHA512(message, secret).toString(hex): an uninterpreted
\* digest, equal exactly when message and secret are equal
_sign(message, secret) ==
    [alg |-> "HmacSHA512", message |-> message, secret |-> secret]

(* ---------------------------- serialisers ------------------------------ *)
\* Percent-escaping of one character.  The values of this model are drawn
\* from letters, digits, "_", "-" (left as they are) and the space.
EscapeChar(c) == IF c = " " THEN "%20" ELSE c

Escape(chars) == Concat([i \in 1..Len(chars) |-> EscapeChar(chars[i])])

\* querystring's stringifyPrimitive: a string as it is, a finite number in
\* decimal, anything else (undefined included) the empty string
stringifyPrimitive(v) ==
    CASE v.t = "string" -> Escape(v.s)
      [] v.t = "number" -> ToString(v.n)
      [] OTHER -> ""

RECURSIVE JoinPairs(_)
\* key=value pieces joined by "&"
JoinPairs(pieces) ==
    IF pieces = <<>> THEN ""
    ELSE IF Len(pieces) = 1 THEN Head(pieces)
    ELSE Head(pieces) \o "&" \o JoinPairs(Tail(pieces))

\* A form object is the sequence of its own properties in insertion order,
\* each <<key, value>>.
\* querystring.stringify(form): one key=value per property, every property
QsStringify(form) ==
    JoinPairs([i \in 1..Len(form) |->
                  form[i][1] \o "=" \o stringifyPrimitive(form[i][2])])

IsDefined(p) == p[2] # Undefined

\* The body request-promise transmits for the `form` option of rp(cfg): the
\* request library serialises the object itself (qs.stringify), and leaves
\* out the properties whose value is undefined.
RpFormBody(form) ==
    LET sent == SelectSeq(form, IsDefined)
    IN  JoinPairs([i \in 1..Len(sent) |->
                      sent[i][1] \o "=" \o stringifyPrimitive(sent[i][2])])

\* a slip: the new property is put in front of the others
SetPropFirst(form, k, v) == << <<k, v>> >> \o form

\* cfg.form.nonce = value: a new property goes last, an existing one keeps
\* its place
RECURSIVE SetProp(_, _, _)
SetProp(form, k, v) ==
    IF form = <<>> THEN << <<k, v>> >>
    ELSE IF Head(form)[1] = k THEN << <<k, v>> >> \o Tail(form)
    ELSE << Head(form) >> \o SetProp(Tail(form), k, v)

(* ---------------------------- wrappers --------------------------------- *)
\* every private wrapper hands _request {uri, method: 'POST', form}
PrivateCfg(form) ==
    [uri |-> privateApiUrl, method |-> "POST", form |-> form,
     headers |-> Undefined, proxy |-> Undefined]

getInfo == PrivateCfg(<< <<"method", Str(<<"getInfo">>)>> >>)

Trade(pair, type, rate, amount) ==
    PrivateCfg(<< <<"method", Str(<<"Trade">>)>>,
                  <<"pair", _formatPairs(pair)>>,
                  <<"type", type>>, <<"rate", rate>>, <<"amount", amount>> >>)

ActiveOrders(pair) ==
    PrivateCfg(<< <<"method", Str(<<"ActiveOrders">>)>>,
                  <<"pair", _formatPairs(pair)>> >>)

OrderInfo(order_id) ==
    PrivateCfg(<< <<"method", Str(<<"OrderInfo">>)>>,
                  <<"order_id", order_id>> >>)

CancelOrder(order_id) ==
    PrivateCfg(<< <<"method", Str(<<"CancelOrder">>)>>,
                  <<"order_id", order_id>> >>)

\* the keys TradeHistory destructures from its options, in the order the
\* form literal lists them
HistoryKeys == <<"from", "count", "from_id", "end_id", "order", "since", "end", "pair">>

\* options = {} when the argument is undefined; a key the options object
\* lacks reads as undefined
TradeHistory(opts) ==
    LET o == IF opts = Undefined THEN [k \in {} |-> Undefined] ELSE opts
        get(k) == IF k \in DOMAIN o THEN o[k] ELSE Undefined
    IN  PrivateCfg(<< <<"method", Str(<<"TradeHistory">>)>> >>
                   \o [i \in 1..Len(HistoryKeys) |->
                          <<HistoryKeys[i], get(HistoryKeys[i])>>])

\* need_new = 0 when the argument is undefined
GetDepositAddress(coinName, need_new) ==
    PrivateCfg(<< <<"method", Str(<<"GetDepositAddress">>)>>,
                  <<"coinName", coinName>>,
                  <<"need_new", IF need_new = Undefined THEN Num(0) ELSE need_new>> >>)

WithdrawCoinsToAddress(coinName, amount, address) ==
    PrivateCfg(<< <<"method", Str(<<"WithdrawCoinsToAddress">>)>>,
                  <<"coinName", coinName>>, <<"amount", amount>>,
                  <<"address", address>> >>)

CreateYobicode(currency, amount) ==
    PrivateCfg(<< <<"method", Str(<<"CreateYobicode">>)>>,
                  <<"currency", currency>>, <<"amount", amount>> >>)

RedeemYobicode(coupon) ==
    PrivateCfg(<< <<"method", Str(<<"RedeemYobicode">>)>>,
                  <<"coupon", coupon>> >>)

(* ---------------------------- inputs ----------------------------------- *)
BTC_USD == Str(<<"B", "T", "C", "_", "U", "S", "D">>)
LTC_BTC == Str(<<"L", "T", "C", "_", "B", "T", "C">>)

\* a caller's uses of the private wrappers: <<wrapper, arguments>>
WrapperCalls ==
    { <<"getInfo", <<>> >>,
      <<"Trade", <<BTC_USD, Str(<<"buy">>), Num(5), Num(2)>> >>,
      <<"ActiveOrders", <<LTC_BTC>> >>,
      <<"OrderInfo", <<Num(42)>> >>,
      <<"CancelOrder", <<Num(42)>> >>,
      <<"TradeHistory", <<Undefined>> >>,
      <<"TradeHistory", << [count |-> Num(10), pair |-> Str(<<"ltc_btc">>)] >> >>,
      <<"GetDepositAddress", <<Str(<<"B", "T", "C">>), Undefined>> >>,
      <<"WithdrawCoinsToAddress", <<Str(<<"B", "T", "C">>), Num(3), Undefined>> >>,
      <<"CreateYobicode", <<Str(<<"B", "T", "C">>), Num(1)>> >>,
      <<"RedeemYobicode", <<Str(<<"Y", "B", " ", "1">>)>> >> }

\* the wrapper calls tried where calls overlap: one without and one with a
\* parameter (all wrappers reach _request the same way)
CoreCalls ==
    { <<"getInfo", <<>> >>, <<"CancelOrder", <<Num(42)>> >> }

\* the cfg a wrapper call builds
Invoke(w) ==
    LET a == w[2] IN
    CASE w[1] = "getInfo" -> getInfo
      [] w[1] = "Trade" -> Trade(a[1], a[2], a[3], a[4])
      [] w[1] = "ActiveOrders" -> ActiveOrders(a[1])
      [] w[1] = "OrderInfo" -> OrderInfo(a[1])
      [] w[1] = "CancelOrder" -> CancelOrder(a[1])
      [] w[1] = "TradeHistory" -> TradeHistory(a[1])
      [] w[1] = "GetDepositAddress" -> GetDepositAddress(a[1], a[2])
      [] w[1] = "WithdrawCoinsToAddress" -> WithdrawCoinsToAddress(a[1], a[2], a[3])
      [] w[1] = "CreateYobicode" -> CreateYobicode(a[1], a[2])
      [] OTHER -> RedeemYobicode(a[1])

(* ---------------------------- state ------------------------------------ *)
VARIABLES
    options,     \* the options argument the constructor was called with
    this,        \* the instance: key, secret, proxyUrl, nonce, nonceUpdateFn
    calls,       \* the private calls started, in the order they started
    overlap,     \* a private call has started while another was in flight
    publicSent   \* the request a static accessor handed to the transport last

vars == <<options, this, calls, overlap, publicSent>>

KEY == Str(<<"k">>)
SECRET == Str(<<"s">>)

Init ==
    /\ options \in OptionsSet
    /\ this = constructor(KEY, SECRET, options, Now)
    /\ calls = <<>>
    /\ overlap = FALSE
    /\ publicSent = Undefined

InFlight(c) == c.pc \in {"await", "sent"}

(* ---------------------------- _request --------------------------------- *)
\* _request up to its await: cfg and its headers are copied (no headers
\* become the empty object), this.nonce is read and handed to
\* this.nonceUpdateFn, and the call suspends.  Every wrapper passes a form,
\* so `cfg.form || {}` is the form.
RequestBegin(cfg, self) ==
    [cfg |-> [cfg EXCEPT !.headers = IF @ = Undefined THEN <<>> ELSE @],
     pc |-> "await",
     arg |-> self.nonce,
     policyCalls |-> 1,
     dispatches |-> 0,
     resolved |-> Undefined,
     committed |-> Undefined,
     request |-> Undefined,
     result |-> "pending"]

\* a slip: the form's nonce is computed from the stored nonce instead of
\* being the value the call's own policy invocation resolved to
RequestResumeStale(call, self, next) ==
    LET nonce == Num(self.nonce.n + 1)
        form == SetProp(call.cfg.form, "nonce", nonce)
        headers == [key |-> self.key,
                    sign |-> _sign(QsStringify(form), self.secret)]
        proxy == IF ~Truthy(call.cfg.proxy) THEN self.proxyUrl ELSE call.cfg.proxy
        cfg == [call.cfg EXCEPT !.form = form, !.headers = headers, !.proxy = proxy]
    IN  [nonce |-> next,
         call |-> [call EXCEPT !.cfg = cfg,
                               !.pc = "sent",
                               !.committed = next,
                               !.dispatches = @ + 1,
                               !.request = [uri |-> cfg.uri, method |-> cfg.method,
                                            headers |-> cfg.headers,
                                            body |-> RpFormBody(cfg.form),
                                            proxy |-> cfg.proxy]]]

\* _request after its await, `next` being the value the policy resolved to:
\* this.nonce is assigned, then the form gets the nonce, the headers get key
\* and sign, the proxy defaults to this.proxyUrl and cfg goes to rp.  No
\* suspension point lies between these statements.
RequestResume(call, self, next) ==
    LET nonce == next
        form == SetProp(call.cfg.form, "nonce", nonce)
        headers == [key |-> self.key,
                    sign |-> _sign(QsStringify(form), self.secret)]
        proxy == IF ~Truthy(call.cfg.proxy) THEN self.proxyUrl ELSE call.cfg.proxy
        cfg == [call.cfg EXCEPT !.form = form, !.headers = headers, !.proxy = proxy]
    IN  [nonce |-> nonce,
         call |-> [call EXCEPT !.cfg = cfg,
                               !.pc = "sent",
                               !.committed = nonce,
                               !.dispatches = @ + 1,
                               !.request = [uri |-> cfg.uri, method |-> cfg.method,
                                            headers |-> cfg.headers,
                                            body |-> RpFormBody(cfg.form),
                                            proxy |-> cfg.proxy]]]

\* _request when the awaited policy rejects: the assignment to this.nonce
\* never runs and the rejection goes to the caller
RequestThrow(call) == [call EXCEPT !.pc = "thrown", !.result = "policy error"]

\* a slip: a transport error makes the call dispatch again
RequestSettleRetry(call, outcome) ==
    IF outcome = "transport error" /\ call.dispatches < 2
    THEN [call EXCEPT !.dispatches = @ + 1]
    ELSE [call EXCEPT !.pc = "done", !.result = outcome]

\* rp settles: the parsed payload or the transport's error, returned as it is
RequestSettle(call, outcome) == [call EXCEPT !.pc = "done", !.result = outcome]

\* the value nonceUpdateFn resolves to: the default adds one; a supplied
\* policy adds the step its store decides
NonceUpdate(fn, arg, step) ==
    IF fn = DefaultFn THEN Num(arg.n + 1) ELSE Num(arg.n + step)

Outcomes == {"success:1", "success:0", "transport error"}

(* ---------------------------- actions ---------------------------------- *)
\* a caller invokes a private wrapper on the instance, which has started
\* fewer than `limit` calls so far
Start(w, limit) ==
    /\ this.thrown = "none"
    /\ Len(calls) < limit
    /\ calls' = Append(calls, RequestBegin(Invoke(w), this))
    /\ overlap' = (overlap \/ \E i \in 1..Len(calls) : InFlight(calls[i]))
    /\ UNCHANGED <<options, this, publicSent>>

\* The awaited policy resolves and _request runs to its end.  The default
\* policy returns at once, so its calls resume in the order they suspended;
\* a supplied policy resolves whenever its store answers.
Resume(i, step) ==
    /\ calls[i].pc = "await"
    /\ this.nonceUpdateFn = DefaultFn =>
          /\ step = 1
          /\ \A j \in 1..(i - 1) : calls[j].pc # "await"
    /\ LET next == NonceUpdate(this.nonceUpdateFn, calls[i].arg, step)
           r == RequestResume(calls[i], this, next)
       IN  /\ this' = [this EXCEPT !.nonce = r.nonce]
           /\ calls' = [calls EXCEPT ![i] = [r.call EXCEPT !.resolved = next]]
    /\ UNCHANGED <<options, overlap, publicSent>>

\* a supplied policy rejects
Reject(i) ==
    /\ calls[i].pc = "await"
    /\ this.nonceUpdateFn # DefaultFn
    /\ calls' = [calls EXCEPT ![i] = RequestThrow(calls[i])]
    /\ UNCHANGED <<options, this, overlap, publicSent>>

\* the transport answers
Settle(i, outcome) ==
    /\ calls[i].pc = "sent"
    /\ calls' = [calls EXCEPT ![i] = RequestSettle(calls[i], outcome)]
    /\ UNCHANGED <<options, this, overlap, publicSent>>

(* ---------------------------- public accessors ------------------------- *)
\* a slip: a static accessor sends the credentials and a nonce along
PublicRequestSigned(uri, qs) ==
    [uri |-> uri, json |-> TRUE, qs |-> qs,
     headers |-> [key |-> KEY, sign |-> _sign("", SECRET)]]

PublicRequest(uri, qs) == [uri |-> uri, json |-> TRUE, qs |-> qs]

info == PublicRequest(_publicUrl("info"), Undefined)

ticker(pairs) ==
    PublicRequest(_publicUrl("ticker/" \o Concat(_formatPairs(pairs).s)), Undefined)

\* limit = 100 when the argument is undefined
depth(pairs, limit) ==
    PublicRequest(_publicUrl("depth/" \o Concat(_formatPairs(pairs).s)),
                  [limit |-> IF limit = Undefined THEN Num(100) ELSE limit])

trades(pairs) ==
    PublicRequest(_publicUrl("trades/" \o Concat(_formatPairs(pairs).s)), Undefined)

PublicCalls ==
    { info, ticker(BTC_USD), depth(Arr(<<BTC_USD, LTC_BTC>>), Undefined),
      trades(Arr(<<BTC_USD, LTC_BTC>>)) }

\* a caller invokes a static accessor
Public(req) ==
    /\ publicSent' = req
    /\ publicSent' # publicSent
    /\ UNCHANGED <<options, this, calls, overlap>>

\* what happens once calls have started, and the static accessors
Progress ==
    \/ \E i \in 1..Len(calls), step \in 1..MaxStep : Resume(i, step)
    \/ \E i \in 1..Len(calls) : Reject(i)
    \/ \E i \in 1..Len(calls), o \in Outcomes : Settle(i, o)
    \/ \E req \in PublicCalls : Public(req)

\* the nonce protocol: up to MaxCalls calls, started in any interleaving
Next ==
    \/ \E w \in CoreCalls : Start(w, MaxCalls)
    \/ Progress

Spec == Init /\ [][Next]_vars

\* the request bodies: every wrapper and argument shape, MaxForms calls
NextForms ==
    \/ \E w \in WrapperCalls : Start(w, MaxForms)
    \/ Progress

SpecForms == Init /\ [][NextForms]_vars

(* ---------------------------- properties ------------------------------- *)
\* the calls whose request has been handed to the transport
Dispatched == {i \in 1..Len(calls) : calls[i].pc \in {"sent", "done"}}

\* the value of a property of a form, undefined when it has none
Prop(form, k) ==
    IF \E i \in 1..Len(form) : form[i][1] = k
    THEN form[CHOOSE i \in 1..Len(form) : form[i][1] = k][2]
    ELSE Undefined

\* the nonce in the form of a dispatched call
NonceOf(i) == Prop(calls[i].cfg.form, "nonce")

\* the string the sign header of a dispatched call was computed over
SignedOf(i) == calls[i].request.headers.sign.message

Keys(form) == [i \in 1..Len(form) |-> form[i][1]]

\* C1: two private calls on one instance never dispatch requests that carry
\* the same nonce, however their suspension points interleave.
C1_DistinctNonces ==
    \A i, j \in Dispatched : i # j => NonceOf(i) # NonceOf(j)

\* C2: with a supplied initial nonce n0 and the default policy, private calls
\* issued one after the other carry n0 + k in the k-th request, and the
\* stored nonce after the k-th request is n0 + k.
C2_SequentialNonces ==
    (/\ this.thrown = "none"
     /\ options.nonce # Undefined
     /\ options.nonceUpdateFn = Undefined
     /\ ~overlap)
    => \A k \in Dispatched :
          /\ NonceOf(k) = Num(options.nonce.n + k)
          /\ calls[k].committed = Num(options.nonce.n + k)

\* C3: no commit of the stored nonce writes a value smaller than the value
\* stored immediately before it.
C3_NonceNeverDecreases ==
    [][this.thrown = "none" => this'.nonce.n >= this.nonce.n]_vars

\* C4: in every private call the policy is invoked exactly once, and the
\* value it resolved to is the value stored as the instance's nonce by that
\* call and the nonce of the form the call signs and dispatches.
C4_OwnPolicyResult ==
    \A i \in 1..Len(calls) :
        /\ calls[i].policyCalls = 1
        /\ i \in Dispatched =>
              /\ calls[i].resolved # Undefined
              /\ calls[i].committed = calls[i].resolved
              /\ NonceOf(i) = calls[i].resolved
              /\ SignedOf(i) = QsStringify(calls[i].cfg.form)

C4_Witness ==
    \E i, j \in Dispatched :
        /\ i < j
        /\ this.nonceUpdateFn = StoreFn
        /\ calls[i].arg = calls[j].arg
        /\ calls[i].resolved # calls[j].resolved

\* C5: a parameter the caller omitted (its value is undefined) is no key of
\* the signed body string: the signed string is built from the defined
\* properties alone.
C5_OmittedNotSigned ==
    \A i \in Dispatched :
        LET kept == SelectSeq(calls[i].cfg.form, IsDefined)
        IN  SignedOf(i) = JoinPairs([n \in 1..Len(kept) |->
                              kept[n][1] \o "=" \o stringifyPrimitive(kept[n][2])])

\* C6: the string the sign header is computed over is the body transmitted.
C6_SignedIsTransmitted ==
    \A i \in Dispatched : SignedOf(i) = calls[i].request.body

\* the parameters each wrapper declares, in the order of its form literal
DeclaredParams(method) ==
    CASE method = "Trade" -> <<"pair", "type", "rate", "amount">>
      [] method = "ActiveOrders" -> <<"pair">>
      [] method = "OrderInfo" -> <<"order_id">>
      [] method = "CancelOrder" -> <<"order_id">>
      [] method = "TradeHistory" -> HistoryKeys
      [] method = "GetDepositAddress" -> <<"coinName", "need_new">>
      [] method = "WithdrawCoinsToAddress" -> <<"coinName", "amount", "address">>
      [] method = "CreateYobicode" -> <<"currency", "amount">>
      [] method = "RedeemYobicode" -> <<"coupon">>
      [] OTHER -> <<>>

\* the first call of a client built with nonce 1000 is CancelOrder(42)
CancelOrderScenario ==
    /\ this.thrown = "none"
    /\ options.nonce = Num(1000)
    /\ 1 \in Dispatched
    /\ calls[1].arg = Num(1000)
    /\ calls[1].resolved = Num(1001)
    /\ calls[1].cfg.form[1] = <<"method", Str(<<"CancelOrder">>)>>
    /\ calls[1].cfg.form[2] = <<"order_id", Num(42)>>

\* C7: the signed body lists method first, then the wrapper's parameters in
\* the order it declares them, then nonce; CancelOrder(42) on a client with
\* key k, secret s and nonce 1000 signs method=CancelOrder&order_id=42&nonce=1001.
C7_KeyOrder ==
    /\ \A i \in Dispatched :
          LET form == calls[i].cfg.form
              keys == <<"method">> \o DeclaredParams(Concat(Prop(form, "method").s))
                                     \o <<"nonce">>
          IN  /\ Keys(form) = keys
              /\ SignedOf(i) = JoinPairs([n \in 1..Len(keys) |->
                                  keys[n] \o "=" \o stringifyPrimitive(form[n][2])])
    /\ CancelOrderScenario =>
          /\ calls[1].request.headers.key = Str(<<"k">>)
          /\ calls[1].request.headers.sign =
                _sign("method=CancelOrder&order_id=42&nonce=1001", Str(<<"s">>))
          /\ calls[1].request.body = "method=CancelOrder&order_id=42&nonce=1001"

C7_Witness ==
    /\ CancelOrderScenario
    /\ calls[1].result = "success:1"

\* C8: construction succeeds for every combination of options, the stored
\* nonce is the supplied one whenever one is supplied and the clock's seconds
\* otherwise, and an omitted policy is the increment.
C8_Construction ==
    /\ this.thrown = "none"
    /\ options # Undefined =>
          /\ options.nonce # Undefined => this.nonce = options.nonce
          /\ options.nonce = Undefined => this.nonce = Num(Now)
          /\ options.nonceUpdateFn = Undefined => this.nonceUpdateFn = DefaultFn

\* C9: a request of a public accessor carries no key, no sign and no nonce,
\* and sending it changes neither the instance nor its private calls.
C9_PublicFrame ==
    [][publicSent' # publicSent =>
          /\ this' = this
          /\ calls' = calls
          /\ DOMAIN publicSent' = {"uri", "json", "qs"}
          /\ publicSent'.qs # Undefined => DOMAIN publicSent'.qs = {"limit"}]_vars

C9_Witness ==
    /\ publicSent # Undefined
    /\ publicSent.qs # Undefined
    /\ \E i \in 1..Len(calls) : calls[i].pc = "await"
    /\ \E i \in Dispatched : TRUE

\* C10: a private call invokes the policy once and dispatches at most once:
\* once when the policy resolved, never when it rejected; a rejection leaves
\* the stored nonce alone, and whatever the transport answers is the call's
\* result, with the committed nonce kept.
C10_NoRetry ==
    [][\A i \in 1..Len(calls') :
          LET c == calls'[i] IN
          /\ c.policyCalls = 1
          /\ c.pc = "await" => c.dispatches = 0
          /\ c.pc \in {"sent", "done"} => c.dispatches = 1
          /\ c.pc = "thrown" => c.dispatches = 0 /\ c.request = Undefined
          /\ c.pc = "done" => c.result \in Outcomes
          /\ (i <= Len(calls) /\ calls[i].pc # c.pc /\ c.pc \in {"thrown", "done"})
                => this' = this /\ c.committed = calls[i].committed]_vars

C10_Witness ==
    \E i, j \in 1..Len(calls) :
        /\ calls[i].pc = "thrown"
        /\ calls[j].pc = "done"
        /\ calls[j].result = "transport error"
        /\ this.nonce = calls[j].committed

====
